---- MODULE Spec2Model ----
(***************************************************************************)
(* Highlight-layer composition and color-mode selection of the Code City   *)
(* panel (src/src/panels/CodeCityPanel.tsx, first component of the file,   *)
(* and src/src/panels/utils/qualityLayers.ts).                             *)
(*                                                                         *)
(* Encoding.                                                               *)
(*  - An optional value (null / undefined in the source) is the empty      *)
(*    tuple Null; a present value v is Some(v) = <<v>>.                    *)
(*  - A layer id is a tuple of the tokens its template string joins with   *)
(*    "-": `${metricId}-clean` is <<metricId, "clean">>,                   *)
(*    'git-highlight-staged' is <<"git-highlight", "staged">>,             *)
(*    `event-highlight-${idx}` is <<"event-highlight", ToString(idx)>>.    *)
(*    id.startsWith(prefix) is a test on the first token.  A missing or    *)
(*    empty id (both falsy) is NoId.                                       *)
(*  - A missing priority and the priority 0 are both falsy in              *)
(*    `layer.priority || 150`; both are the number 0 here.                 *)
(*  - React: a host update or a user event is one action; the effects      *)
(*    whose dependencies changed in that commit are queued in `pending`    *)
(*    and run one per step in declaration order; state they set queues     *)
(*    the effects of the next commit in `dirty`.  Events are handled only  *)
(*    when no effect is pending.                                           *)
(***************************************************************************)
EXTENDS Integers, Sequences, FiniteSets, TLC

VARIABLES
    repoPath,        \* context.currentScope.repository?.path
    lastRepoPath,    \* lastRepoPath ref
    fileTree,        \* fileTreeSlice?.data
    git,             \* gitSlice?.data
    quality,         \* qualitySlice?.data
    agent,           \* agentHighlightLayersSlice?.data
    cityData,        \* useState cityData
    colorMode,       \* useState colorMode
    highlightLayers, \* useState highlightLayers
    loading,         \* useState loading
    pending,         \* effects of the current commit that have not run yet
    dirty,           \* effects whose dependencies were set during this flush
    lastOp           \* the handler or effect that ran last

vars == <<repoPath, lastRepoPath, fileTree, git, quality, agent, cityData,
          colorMode, highlightLayers, loading, pending, dirty, lastOp>>

-----------------------------------------------------------------------------
(* Bounds of the model *)

MaxFiles == 2
MaxBuildings == 2

-----------------------------------------------------------------------------
(* Optional values and sequence helpers *)

Null == <<>>
Some(x) == <<x>>
Val(o) == o[1]

Range(s) == {s[i] : i \in 1..Len(s)}

SeqMap(Op(_, _), s) == [i \in 1..Len(s) |-> Op(s[i], i - 1)]

RECURSIVE Flatten(_)
Flatten(ss) == IF ss = <<>> THEN <<>> ELSE Head(ss) \o Flatten(Tail(ss))

\* Variant: the loop runs over the building list itself instead of the Map,
\* so that a repeated path is visited once per occurrence.
MapKeys_NoDedup(keys) == keys

\* The keys of `new Map(xs.map(x => [key(x), x]))` in iteration order: each
\* key once, at the position of its first occurrence.
MapKeys(keys) ==
    LET F[i \in 0..Len(keys)] ==
            IF i = 0 THEN <<>>
            ELSE IF \E j \in 1..(i - 1) : keys[j] = keys[i]
                 THEN F[i - 1]
                 ELSE Append(F[i - 1], keys[i])
    IN F[Len(keys)]

\* Map.get(key) of the same map: the last entry with that key wins.
MapGet(s, Key(_), k) ==
    LET idx == {i \in 1..Len(s) : Key(s[i]) = k}
    IN IF idx = {} THEN Null
       ELSE Some(s[CHOOSE i \in idx : \A j \in idx : j <= i])

-----------------------------------------------------------------------------
(* qualityLayers.ts *)

COLOR_MODES ==
    <<"fileTypes", "git", "coverage", "eslint", "typescript", "prettier",
      "knip", "alexandria">>

MetricIds == {"eslint", "typescript", "prettier", "knip", "alexandria"}

LayerItemOf(p) == [path |-> p, type |-> "file", renderStrategy |-> "fill"]

Layer(id, name, color, priority, items) ==
    [id |-> id, name |-> name, enabled |-> TRUE, color |-> color,
     priority |-> priority, items |-> items]

BuildingPath(b) == b.path

PathsOf(buildings) == SeqMap(LAMBDA b, i : b.path, buildings)

\* Variant: the last range test written `>= 0`, so that an uncovered file
\* lands in the veryLow group.
CoverageBucket_ZeroAsVeryLow(fileCoverage, path) ==
    IF path \notin DOMAIN fileCoverage THEN "noData"
    ELSE LET coverage == fileCoverage[path]
         IN IF coverage >= 80 THEN "high"
            ELSE IF coverage >= 50 THEN "medium"
            ELSE IF coverage >= 20 THEN "low"
            ELSE IF coverage >= 0 THEN "veryLow"
            ELSE "zero"

\* Variant: the lower edges compared with `>` instead of `>=`.
CoverageBucket_ExclusiveEdges(fileCoverage, path) ==
    IF path \notin DOMAIN fileCoverage THEN "noData"
    ELSE LET coverage == fileCoverage[path]
         IN IF coverage > 80 THEN "high"
            ELSE IF coverage > 50 THEN "medium"
            ELSE IF coverage > 20 THEN "low"
            ELSE IF coverage > 0 THEN "veryLow"
            ELSE "zero"

CoverageBucket(fileCoverage, path) ==
    IF path \notin DOMAIN fileCoverage THEN "noData"
    ELSE LET coverage == fileCoverage[path]
         IN IF coverage >= 80 THEN "high"
            ELSE IF coverage >= 50 THEN "medium"
            ELSE IF coverage >= 20 THEN "low"
            ELSE IF coverage > 0 THEN "veryLow"
            ELSE "zero"

CoverageLayerTable ==
    << [bucket |-> "high",    id |-> <<"coverage", "high">>,    name |-> "80-100%", color |-> "#22c55e", priority |-> 50],
       [bucket |-> "medium",  id |-> <<"coverage", "medium">>,  name |-> "50-79%",  color |-> "#eab308", priority |-> 50],
       [bucket |-> "low",     id |-> <<"coverage", "low">>,     name |-> "20-49%",  color |-> "#f97316", priority |-> 50],
       [bucket |-> "veryLow", id |-> <<"coverage", "verylow">>, name |-> "1-19%",   color |-> "#ef4444", priority |-> 50],
       [bucket |-> "zero",    id |-> <<"coverage", "zero">>,    name |-> "0%",      color |-> "#991b1b", priority |-> 50],
       [bucket |-> "noData",  id |-> <<"coverage", "nodata">>,  name |-> "No data", color |-> "#6b7280", priority |-> 40] >>

\* The shared tail of both quality builders: one layer per non-empty group,
\* in the order of the table.
LayersOfGroups(table, keys, BucketOf(_)) ==
    Flatten(SeqMap(
        LAMBDA row, i :
            LET items == SeqMap(LAMBDA p, j : LayerItemOf(p),
                                SelectSeq(keys, LAMBDA p : BucketOf(p) = row.bucket))
            IN IF Len(items) > 0
               THEN <<Layer(row.id, row.name, row.color, row.priority, items)>>
               ELSE <<>>,
        table))

\* Variant: the range tests as independent `if`s instead of an else-if chain,
\* so that a covered file is pushed to every group whose lower edge it reaches.
createCoverageHighlightLayers_IndependentIfs(buildings, fileCoverage) ==
    LET InGroup(p, bucket) ==
            IF p \notin DOMAIN fileCoverage THEN bucket = "noData"
            ELSE \/ bucket = "high" /\ fileCoverage[p] >= 80
                 \/ bucket = "medium" /\ fileCoverage[p] >= 50
                 \/ bucket = "low" /\ fileCoverage[p] >= 20
                 \/ bucket = "veryLow" /\ fileCoverage[p] > 0
                 \/ bucket = "zero" /\ fileCoverage[p] <= 0
    IN Flatten(SeqMap(
        LAMBDA row, i :
            LET items == SeqMap(LAMBDA p, j : LayerItemOf(p),
                                SelectSeq(MapKeys(PathsOf(buildings)),
                                          LAMBDA p : InGroup(p, row.bucket)))
            IN IF Len(items) > 0
               THEN <<Layer(row.id, row.name, row.color, row.priority, items)>>
               ELSE <<>>,
        CoverageLayerTable))

createCoverageHighlightLayers(buildings, fileCoverage) ==
    LayersOfGroups(CoverageLayerTable, MapKeys(PathsOf(buildings)),
                   LAMBDA p : CoverageBucket(fileCoverage, p))

MetricFile(m) == m.file

\* Variant: a file without a record counted as a file with no issue
\* (`metric?.issueCount ?? 0`).
MetricBucket_MissingAsClean(metrics, path) ==
    LET metric == MapGet(metrics, MetricFile, path)
        issues == IF metric = Null THEN 0 ELSE Val(metric).issueCount
    IN IF issues = 0 THEN "clean"
       ELSE IF issues <= 3 THEN "minor"
       ELSE IF issues <= 10 THEN "moderate"
       ELSE IF issues <= 25 THEN "significant"
       ELSE "severe"

\* Variant: the upper edges compared with `<` instead of `<=`.
MetricBucket_ExclusiveEdges(metrics, path) ==
    LET metric == MapGet(metrics, MetricFile, path)
    IN IF metric = Null THEN "noData"
       ELSE LET issues == Val(metric).issueCount
            IN IF issues = 0 THEN "clean"
               ELSE IF issues < 3 THEN "minor"
               ELSE IF issues < 10 THEN "moderate"
               ELSE IF issues < 25 THEN "significant"
               ELSE "severe"

MetricBucket(metrics, path) ==
    LET metric == MapGet(metrics, MetricFile, path)
    IN IF metric = Null THEN "noData"
       ELSE LET issues == Val(metric).issueCount
            IN IF issues = 0 THEN "clean"
               ELSE IF issues <= 3 THEN "minor"
               ELSE IF issues <= 10 THEN "moderate"
               ELSE IF issues <= 25 THEN "significant"
               ELSE "severe"

\* Variant: the layer ids written without the metric id in front.
MetricLayerTable_SharedIds(metricId) ==
    << [bucket |-> "clean",       id |-> <<"metric", "clean">>,       name |-> "0 issues",     color |-> "#22c55e", priority |-> 50],
       [bucket |-> "minor",       id |-> <<"metric", "minor">>,       name |-> "1-3 issues",   color |-> "#84cc16", priority |-> 50],
       [bucket |-> "moderate",    id |-> <<"metric", "moderate">>,    name |-> "4-10 issues",  color |-> "#eab308", priority |-> 50],
       [bucket |-> "significant", id |-> <<"metric", "significant">>, name |-> "11-25 issues", color |-> "#f97316", priority |-> 50],
       [bucket |-> "severe",      id |-> <<"metric", "severe">>,      name |-> "26+ issues",   color |-> "#ef4444", priority |-> 50],
       [bucket |-> "noData",      id |-> <<"metric", "nodata">>,      name |-> "No data",      color |-> "#6b7280", priority |-> 40] >>

MetricLayerTable(metricId) ==
    << [bucket |-> "clean",       id |-> <<metricId, "clean">>,       name |-> "0 issues",     color |-> "#22c55e", priority |-> 50],
       [bucket |-> "minor",       id |-> <<metricId, "minor">>,       name |-> "1-3 issues",   color |-> "#84cc16", priority |-> 50],
       [bucket |-> "moderate",    id |-> <<metricId, "moderate">>,    name |-> "4-10 issues",  color |-> "#eab308", priority |-> 50],
       [bucket |-> "significant", id |-> <<metricId, "significant">>, name |-> "11-25 issues", color |-> "#f97316", priority |-> 50],
       [bucket |-> "severe",      id |-> <<metricId, "severe">>,      name |-> "26+ issues",   color |-> "#ef4444", priority |-> 50],
       [bucket |-> "noData",      id |-> <<metricId, "nodata">>,      name |-> "No data",      color |-> "#6b7280", priority |-> 40] >>

\* Variant: a layer for every group, without the `length > 0` test.
createMetricHighlightLayers_EmitsEmpty(buildings, metrics, metricId) ==
    SeqMap(LAMBDA row, i :
              Layer(row.id, row.name, row.color, row.priority,
                    SeqMap(LAMBDA p, j : LayerItemOf(p),
                           SelectSeq(MapKeys(PathsOf(buildings)),
                                     LAMBDA p : MetricBucket(metrics, p) = row.bucket))),
           MetricLayerTable(metricId))

createMetricHighlightLayers(buildings, metrics, metricId) ==
    LayersOfGroups(MetricLayerTable(metricId), MapKeys(PathsOf(buildings)),
                   LAMBDA p : MetricBucket(metrics, p))

\* qualityData.fileMetrics?.[metricId]
MetricSource(qualityData, metricId) ==
    IF qualityData = Null THEN Null
    ELSE IF Val(qualityData).fileMetrics = Null THEN Null
    ELSE Val(Val(qualityData).fileMetrics)[metricId]

\* Variant: a quality mode is offered as soon as the quality slice has data,
\* without looking at the mode's own metric source.
isColorModeAvailable_AnyQuality(mode, qualityData, hasGitData) ==
    IF mode = "fileTypes" THEN TRUE
    ELSE IF mode = "git" THEN hasGitData
    ELSE qualityData # Null

isColorModeAvailable(mode, qualityData, hasGitData) ==
    IF mode = "fileTypes" THEN TRUE
    ELSE IF mode = "git" THEN hasGitData
    ELSE IF qualityData = Null THEN FALSE
    ELSE IF mode = "coverage"
         THEN /\ Val(qualityData).fileCoverage # Null
              /\ DOMAIN Val(Val(qualityData).fileCoverage) # {}
    ELSE IF mode \in MetricIds
         THEN /\ MetricSource(qualityData, mode) # Null
              /\ Len(Val(MetricSource(qualityData, mode))) > 0
    ELSE FALSE

\* Variant: the `typescript` case is missing from the switch, so that the
\* mode falls through to `default`.
getLayersForColorMode_TypescriptFallsThrough(mode, buildings, qualityData, fileColorLayers, gitLayers) ==
    IF mode = "fileTypes" THEN fileColorLayers
    ELSE IF mode = "git" THEN gitLayers
    ELSE IF mode = "coverage"
         THEN IF qualityData # Null /\ Val(qualityData).fileCoverage # Null
              THEN createCoverageHighlightLayers(buildings, Val(Val(qualityData).fileCoverage))
              ELSE <<>>
    ELSE IF mode \in MetricIds \ {"typescript"}
         THEN IF MetricSource(qualityData, mode) # Null
              THEN createMetricHighlightLayers(buildings, Val(MetricSource(qualityData, mode)), mode)
              ELSE <<>>
    ELSE fileColorLayers

getLayersForColorMode(mode, buildings, qualityData, fileColorLayers, gitLayers) ==
    IF mode = "fileTypes" THEN fileColorLayers
    ELSE IF mode = "git" THEN gitLayers
    ELSE IF mode = "coverage"
         THEN IF qualityData # Null /\ Val(qualityData).fileCoverage # Null
              THEN createCoverageHighlightLayers(buildings, Val(Val(qualityData).fileCoverage))
              ELSE <<>>
    ELSE IF mode \in MetricIds
         THEN IF MetricSource(qualityData, mode) # Null
              THEN createMetricHighlightLayers(buildings, Val(MetricSource(qualityData, mode)), mode)
              ELSE <<>>
    ELSE fileColorLayers

-----------------------------------------------------------------------------
(* Inputs the host can supply *)

NoId == <<>>

RepoPaths == {"/repo/one", "/repo/two"}

\* FileTree.allFiles entries; `extension` is what the load effect computes
\* from the file name (the text after the last '.').
FilePool ==
    << [path |-> "a.ts", extension |-> "ts"],
       [path |-> "b.md", extension |-> "md"],
       [path |-> "c.ts", extension |-> "ts"],
       [path |-> "d.md", extension |-> "md"] >>

\* no tree yet, a tree of MaxFiles files, and the one-file tree of another
\* repository
FileTreeInputs ==
    { Null,
      Some([allFiles |-> SubSeq(FilePool, 1, MaxFiles)]),
      Some([allFiles |-> SubSeq(FilePool, MaxFiles + 1, MaxFiles + 1)]) }

GitStatusOf(s, u, t, d) ==
    [staged |-> s, unstaged |-> u, untracked |-> t, deleted |-> d]

\* "gone.ts" is listed by git but is never a building.
GitInputs ==
    { Null,
      Some(GitStatusOf(<<>>, <<>>, <<>>, <<>>)),
      Some(GitStatusOf(<<"a.ts">>, <<"a.ts">>, <<>>, <<"b.md", "gone.ts">>)),
      Some(GitStatusOf(<<>>, <<>>, <<>>, <<"gone.ts">>)) }

NoMetrics == [m \in MetricIds |-> Null]

QualityOf(cov, metrics) == [fileCoverage |-> cov, fileMetrics |-> metrics]

QualityInputs ==
    { Null,
      Some(QualityOf(Null, Null)),
      Some(QualityOf(Some([p \in {"a.ts", "b.md"} |-> IF p = "a.ts" THEN 85 ELSE 0]),
                     Some([NoMetrics EXCEPT
                             !["eslint"] = Some(<<[file |-> "a.ts", issueCount |-> 2]>>),
                             !["typescript"] = Some(<<>>)]))),
      Some(QualityOf(Some([p \in {} |-> 0]),
                     Some([NoMetrics EXCEPT
                             !["typescript"] = Some(<<[file |-> "b.md", issueCount |-> 30]>>)]))) }

\* Layers of the agentHighlightLayers feed: without id and priority, with
\* both supplied, and with an id of the generated form.
AgentNoId ==
    [id |-> NoId, name |-> "Agent activity", enabled |-> TRUE,
     color |-> "#3b82f6", priority |-> 0, items |-> <<LayerItemOf("a.ts")>>]

AgentWithId ==
    [id |-> <<"agent", "edit">>, name |-> "Agent edits", enabled |-> FALSE,
     color |-> "#a855f7", priority |-> 10, items |-> <<LayerItemOf("b.md")>>]

AgentEventOne ==
    [id |-> <<"event-highlight", "1">>, name |-> "Agent event", enabled |-> TRUE,
     color |-> "#0ea5e9", priority |-> 0, items |-> <<LayerItemOf("a.ts")>>]

AgentInputs ==
    { Null,
      Some(<<AgentNoId>>),
      Some(<<AgentNoId, AgentWithId>>),
      Some(<<AgentEventOne, AgentNoId>>) }

-----------------------------------------------------------------------------
(* Derived values of CodeCityPanelContent (useMemo) *)

\* buildCityFromFileSystem of @principal-ai/code-city-builder: one building
\* per file of the tree, in order.
BuildCity(tree) ==
    [buildings |-> SeqMap(LAMBDA f, i : [path |-> f.path, fileExtension |-> f.extension],
                          tree.allFiles)]

\* createFileColorHighlightLayers of @principal-ai/code-city-react: per
\* extension with a building, a primary layer and, for extensions whose color
\* configuration has a border color, a secondary layer with the same items.
ExtensionsWithSecondary == {"ts"}

createFileColorHighlightLayers(buildings) ==
    LET exts == MapKeys(SeqMap(LAMBDA b, i : b.fileExtension, buildings))
        ItemsOf(ext) == SeqMap(LAMBDA b, j : LayerItemOf(b.path),
                               SelectSeq(buildings, LAMBDA b : b.fileExtension = ext))
    IN Flatten(SeqMap(
        LAMBDA ext, i :
            <<Layer(<<"ext", ext, "primary">>, ext, "fill", 1, ItemsOf(ext))>> \o
            (IF ext \in ExtensionsWithSecondary
             THEN <<Layer(<<"ext", ext, "secondary">>, ext, "border", 2, ItemsOf(ext))>>
             ELSE <<>>),
        exts))

hasGitData ==
    /\ git # Null
    /\ \/ Len(Val(git).staged) > 0
       \/ Len(Val(git).unstaged) > 0
       \/ Len(Val(git).untracked) > 0
       \/ Len(Val(git).deleted) > 0

availableColorModes ==
    SelectSeq(COLOR_MODES, LAMBDA mode : isColorModeAvailable(mode, quality, hasGitData))

fileColorLayersOf(city) ==
    IF city = Null THEN <<>> ELSE createFileColorHighlightLayers(Val(city).buildings)

fileColorLayers == fileColorLayersOf(cityData)

\* Variant: an item for every listed path, without the buildingsByPath lookup.
createLayerItems_NoLookup(buildings, paths) ==
    SeqMap(LAMBDA p, i : LayerItemOf(p), paths)

createLayerItems(buildings, paths) ==
    SeqMap(LAMBDA p, i : LayerItemOf(p),
           SelectSeq(paths, LAMBDA p : MapGet(buildings, BuildingPath, p) # Null))

GitLayerTable ==
    << [category |-> "staged",    id |-> <<"git-highlight", "staged">>,    name |-> "Staged",    color |-> "#22c55e", priority |-> 100],
       [category |-> "unstaged",  id |-> <<"git-highlight", "unstaged">>,  name |-> "Modified",  color |-> "#f59e0b", priority |-> 90],
       [category |-> "untracked", id |-> <<"git-highlight", "untracked">>, name |-> "Untracked", color |-> "#6b7280", priority |-> 80],
       [category |-> "deleted",   id |-> <<"git-highlight", "deleted">>,   name |-> "Deleted",   color |-> "#ef4444", priority |-> 110] >>

\* Variant: a category's layer is pushed whenever the category lists a path,
\* without the `items.length > 0` test.
gitStatusLayersOf_NoItemsTest(city, gitData) ==
    IF city = Null \/ gitData = Null THEN <<>>
    ELSE Flatten(SeqMap(
            LAMBDA row, i :
                LET paths == Val(gitData)[row.category]
                    items == createLayerItems(Val(city).buildings, paths)
                IN IF Len(paths) > 0
                   THEN <<Layer(row.id, row.name, row.color, row.priority, items)>>
                   ELSE <<>>,
            GitLayerTable))

gitStatusLayersOf(city, gitData) ==
    IF city = Null \/ gitData = Null THEN <<>>
    ELSE Flatten(SeqMap(
            LAMBDA row, i :
                LET paths == Val(gitData)[row.category]
                    items == createLayerItems(Val(city).buildings, paths)
                IN IF Len(paths) > 0 /\ Len(items) > 0
                   THEN <<Layer(row.id, row.name, row.color, row.priority, items)>>
                   ELSE <<>>,
            GitLayerTable))

gitStatusLayers == gitStatusLayersOf(cityData, git)

qualityLayersOf(city, mode, qualityData) ==
    IF city = Null THEN <<>>
    ELSE IF mode = "fileTypes" \/ mode = "git" THEN <<>>
    ELSE getLayersForColorMode(mode, Val(city).buildings, qualityData, <<>>, <<>>)

qualityLayers == qualityLayersOf(cityData, colorMode, quality)

StartsWith(id, prefix) == Len(id) > 0 /\ id[1] = prefix

LayerIds(layers) == SeqMap(LAMBDA l, i : l.id, layers)

\* ids of the legend entries, which are what the legend's click handlers pass
legendFileTypes ==
    {l.id[2] : l \in {x \in Range(highlightLayers) :
                        Len(x.id) = 3 /\ x.id[1] = "ext" /\ x.id[3] = "primary"}}

legendGitStatus ==
    {l.id : l \in {x \in Range(highlightLayers) : StartsWith(x.id, "git-highlight")}}

legendAgentLayers ==
    {l.id : l \in {x \in Range(highlightLayers) : StartsWith(x.id, "event-highlight")}}

QualityModeIds == {"coverage", "eslint", "typescript", "prettier", "knip", "alexandria"}

legendQualityMetrics ==
    IF colorMode \notin QualityModeIds THEN {}
    ELSE {l.id : l \in {x \in Range(highlightLayers) : StartsWith(x.id, colorMode)}}

-----------------------------------------------------------------------------
(* State updaters *)

\* Variant: the updater filters the layer out instead of flipping it.
ToggleLayer_Removes(prev, id) ==
    SelectSeq(prev, LAMBDA layer : layer.id # id)

\* Variant: the id test is lost and every layer is flipped.
ToggleLayer_FlipAll(prev, id) ==
    [i \in 1..Len(prev) |-> [prev[i] EXCEPT !.enabled = ~prev[i].enabled]]

ToggleLayer(prev, id) ==
    [i \in 1..Len(prev) |->
        IF prev[i].id = id THEN [prev[i] EXCEPT !.enabled = ~prev[i].enabled]
        ELSE prev[i]]

ClearAgent(prev) == SelectSeq(prev, LAMBDA layer : ~StartsWith(layer.id, "event-highlight"))

\* Variant: only the primary layer of the extension is matched.
ToggleExt_PrimaryOnly(prev, ext) ==
    LET primary == {i \in 1..Len(prev) : prev[i].id = <<"ext", ext, "primary">>}
        newEnabled == IF primary # {}
                      THEN ~prev[CHOOSE i \in primary : \A j \in primary : i <= j].enabled
                      ELSE TRUE
    IN [i \in 1..Len(prev) |->
        IF prev[i].id = <<"ext", ext, "primary">>
        THEN [prev[i] EXCEPT !.enabled = newEnabled]
        ELSE prev[i]]

ToggleExt(prev, ext) ==
    LET primary == {i \in 1..Len(prev) : prev[i].id = <<"ext", ext, "primary">>}
        newEnabled == IF primary # {}
                      THEN ~prev[CHOOSE i \in primary : \A j \in primary : i <= j].enabled
                      ELSE TRUE
    IN [i \in 1..Len(prev) |->
        IF prev[i].id = <<"ext", ext, "primary">> \/ prev[i].id = <<"ext", ext, "secondary">>
        THEN [prev[i] EXCEPT !.enabled = newEnabled]
        ELSE prev[i]]

formattedAgentLayers(feed) ==
    SeqMap(LAMBDA layer, idx :
              [id |-> IF layer.id # NoId THEN layer.id
                      ELSE <<"event-highlight", ToString(idx)>>,
               name |-> layer.name,
               enabled |-> layer.enabled,
               color |-> layer.color,
               priority |-> IF layer.priority # 0 THEN layer.priority ELSE 150,
               items |-> layer.items],
           IF feed = Null THEN <<>> ELSE Val(feed))

\* Variant: the file color layers are kept under the git and quality layers
\* instead of being replaced by them.
modeLayersOf_Merged(mode, fileLayers, gitLayers, qLayers) ==
    SeqMap(LAMBDA layer, i : [layer EXCEPT !.enabled = TRUE], fileLayers) \o
    (IF mode = "fileTypes" THEN <<>>
     ELSE IF mode = "git" THEN gitLayers
     ELSE qLayers)

\* fileTypes: the file color layers re-shaped with enabled: true and
\* priority: layer.priority || 0 (opacity and borderWidth are not modelled).
modeLayersOf(mode, fileLayers, gitLayers, qLayers) ==
    IF mode = "fileTypes"
    THEN SeqMap(LAMBDA layer, i : [layer EXCEPT !.enabled = TRUE], fileLayers)
    ELSE IF mode = "git" THEN gitLayers
    ELSE qLayers

modeLayers == modeLayersOf(colorMode, fileColorLayers, gitStatusLayers, qualityLayers)

\* Variant: the spread written in the other order, agent layers first.
allLayers_AgentFirst == formattedAgentLayers(agent) \o modeLayers

allLayers == modeLayers \o formattedAgentLayers(agent)

-----------------------------------------------------------------------------
(* Initial state: the first render, before its effects *)

Init ==
    /\ repoPath = "/repo/one"
    /\ lastRepoPath = repoPath
    /\ fileTree = Null
    /\ git = Null
    /\ quality = Null
    /\ agent = Null
    /\ cityData = Null
    /\ colorMode = "fileTypes"
    /\ highlightLayers = <<>>
    /\ loading = FALSE
    /\ pending = {"reset", "compose", "load"}
    /\ dirty = {}
    /\ lastOp = "mount"

Idle == pending = {}

\* An effect has run: the rest of this commit's effects stay pending; after
\* the last one React re-renders and the effects made dirty become pending.
EffectDone(e, newDirty) ==
    LET p == pending \ {e}
        d == dirty \cup newDirty
    IN IF p = {} THEN pending' = d /\ dirty' = {}
       ELSE pending' = p /\ dirty' = d

-----------------------------------------------------------------------------
(* Host updates *)

HostSetRepository(r) ==
    /\ Idle
    /\ r # repoPath
    /\ repoPath' = r
    /\ pending' = {"reset", "load"}
    /\ lastOp' = "setRepository"
    /\ UNCHANGED <<lastRepoPath, fileTree, git, quality, agent, cityData,
                   colorMode, highlightLayers, loading, dirty>>

HostUpdateFileTree(t) ==
    /\ Idle
    /\ fileTree' = t
    /\ pending' = {"load"}
    /\ lastOp' = "updateFileTree"
    /\ UNCHANGED <<repoPath, lastRepoPath, git, quality, agent, cityData,
                   colorMode, highlightLayers, loading, dirty>>

HostUpdateGit(g) ==
    /\ Idle
    /\ git' = g
    /\ pending' = {"compose"}
    /\ lastOp' = "updateGit"
    /\ UNCHANGED <<repoPath, lastRepoPath, fileTree, quality, agent, cityData,
                   colorMode, highlightLayers, loading, dirty>>

HostUpdateQuality(q) ==
    /\ Idle
    /\ quality' = q
    /\ pending' = {"compose"}
    /\ lastOp' = "updateQuality"
    /\ UNCHANGED <<repoPath, lastRepoPath, fileTree, git, agent, cityData,
                   colorMode, highlightLayers, loading, dirty>>

HostUpdateAgentLayers(a) ==
    /\ Idle
    /\ agent' = a
    /\ pending' = {"compose"}
    /\ lastOp' = "updateAgentLayers"
    /\ UNCHANGED <<repoPath, lastRepoPath, fileTree, git, quality, cityData,
                   colorMode, highlightLayers, loading, dirty>>

-----------------------------------------------------------------------------
(* User events *)

\* dropdown onClick; selecting the current mode is a React bail-out
\* Variant: the dropdown lists COLOR_MODES instead of availableColorModes.
SelectColorMode_AnyMode(m) ==
    /\ Idle
    /\ m \in Range(COLOR_MODES)
    /\ m # colorMode
    /\ colorMode' = m
    /\ pending' = {"compose"}
    /\ lastOp' = "setColorMode"
    /\ UNCHANGED <<repoPath, lastRepoPath, fileTree, git, quality, agent,
                   cityData, highlightLayers, loading, dirty>>

SelectColorMode(m) ==
    /\ Idle
    /\ m \in Range(availableColorModes)
    /\ m # colorMode
    /\ colorMode' = m
    /\ pending' = {"compose"}
    /\ lastOp' = "setColorMode"
    /\ UNCHANGED <<repoPath, lastRepoPath, fileTree, git, quality, agent,
                   cityData, highlightLayers, loading, dirty>>

SetLayers(op, layers) ==
    /\ Idle
    /\ highlightLayers' = layers
    /\ lastOp' = op
    /\ UNCHANGED <<repoPath, lastRepoPath, fileTree, git, quality, agent,
                   cityData, colorMode, loading, pending, dirty>>

toggleGitStatus(id) ==
    /\ id \in legendGitStatus
    /\ SetLayers("toggleGitStatus", ToggleLayer(highlightLayers, id))

toggleAgentLayer(id) ==
    /\ id \in legendAgentLayers
    /\ SetLayers("toggleAgentLayer", ToggleLayer(highlightLayers, id))

toggleQualityMetric(id) ==
    /\ id \in legendQualityMetrics
    /\ SetLayers("toggleQualityMetric", ToggleLayer(highlightLayers, id))

toggleFileType(ext) ==
    /\ ext \in legendFileTypes
    /\ SetLayers("toggleFileType", ToggleExt(highlightLayers, ext))

\* the Clear button is rendered in the legend's agent section
clearAgentLayers ==
    /\ legendAgentLayers # {}
    /\ SetLayers("clearAgentLayers", ClearAgent(highlightLayers))

-----------------------------------------------------------------------------
(* Effects *)

\* Variant: the reset without setColorMode('fileTypes').
ResetEffect_KeepsMode ==
    /\ "reset" \in pending
    /\ lastOp' = "resetEffect"
    /\ IF lastRepoPath # repoPath
       THEN /\ highlightLayers' = <<>>
            /\ lastRepoPath' = repoPath
       ELSE UNCHANGED <<highlightLayers, lastRepoPath>>
    /\ EffectDone("reset", {})
    /\ UNCHANGED <<repoPath, fileTree, git, quality, agent, cityData, loading,
                   colorMode>>

ResetEffect ==
    /\ "reset" \in pending
    /\ lastOp' = "resetEffect"
    /\ IF lastRepoPath # repoPath
       THEN /\ highlightLayers' = <<>>
            /\ lastRepoPath' = repoPath
            /\ colorMode' = "fileTypes"
            /\ EffectDone("reset", IF colorMode # "fileTypes" THEN {"compose"} ELSE {})
       ELSE /\ UNCHANGED <<highlightLayers, lastRepoPath, colorMode>>
            /\ EffectDone("reset", {})
    /\ UNCHANGED <<repoPath, fileTree, git, quality, agent, cityData, loading>>

\* Variant: the effect appends to the layer set it finds (a functional
\* update `prev => [...prev, ...allLayers]`) instead of replacing it.
ComposeEffect_Appends ==
    /\ "compose" \in pending
    /\ "reset" \notin pending
    /\ highlightLayers' = highlightLayers \o allLayers
    /\ lastOp' = "composeEffect"
    /\ EffectDone("compose", {})
    /\ UNCHANGED <<repoPath, lastRepoPath, fileTree, git, quality, agent,
                   cityData, colorMode, loading>>

ComposeEffect ==
    /\ "compose" \in pending
    /\ "reset" \notin pending
    /\ highlightLayers' = allLayers
    /\ lastOp' = "composeEffect"
    /\ EffectDone("compose", {})
    /\ UNCHANGED <<repoPath, lastRepoPath, fileTree, git, quality, agent,
                   cityData, colorMode, loading>>

\* Variant: setLoading(false) at the end of the `try` block instead of in
\* `finally`, and setCityData(null) in the `catch` block.
LoadEffect_NoFinally ==
    /\ pending = {"load"}
    /\ lastOp' = "loadEffect"
    /\ IF fileTree = Null
       THEN /\ loading' = FALSE
            /\ UNCHANGED cityData
            /\ EffectDone("load", {})
       ELSE \E built \in BOOLEAN :
              IF built
              THEN /\ loading' = FALSE
                   /\ cityData' = Some(BuildCity(Val(fileTree)))
                   /\ EffectDone("load", {"compose"})
              ELSE /\ loading' = TRUE
                   /\ cityData' = Null
                   /\ EffectDone("load", IF cityData # Null THEN {"compose"} ELSE {})
    /\ UNCHANGED <<repoPath, lastRepoPath, fileTree, git, quality, agent,
                   colorMode, highlightLayers>>

LoadEffect ==
    /\ pending = {"load"}
    /\ lastOp' = "loadEffect"
    /\ loading' = FALSE
    /\ IF fileTree = Null
       THEN /\ UNCHANGED cityData
            /\ EffectDone("load", {})
       ELSE \E built \in BOOLEAN :
              IF built
              THEN /\ cityData' = Some(BuildCity(Val(fileTree)))
                   /\ EffectDone("load", {"compose"})
              ELSE /\ UNCHANGED cityData
                   /\ EffectDone("load", {})
    /\ UNCHANGED <<repoPath, lastRepoPath, fileTree, git, quality, agent,
                   colorMode, highlightLayers>>

-----------------------------------------------------------------------------

Next ==
    \/ \E r \in RepoPaths : HostSetRepository(r)
    \/ \E t \in FileTreeInputs : HostUpdateFileTree(t)
    \/ \E g \in GitInputs : HostUpdateGit(g)
    \/ \E q \in QualityInputs : HostUpdateQuality(q)
    \/ \E a \in AgentInputs : HostUpdateAgentLayers(a)
    \/ \E m \in Range(COLOR_MODES) : SelectColorMode(m)
    \/ \E id \in legendGitStatus : toggleGitStatus(id)
    \/ \E id \in legendAgentLayers : toggleAgentLayer(id)
    \/ \E id \in legendQualityMetrics : toggleQualityMetric(id)
    \/ \E ext \in legendFileTypes : toggleFileType(ext)
    \/ clearAgentLayers
    \/ ResetEffect
    \/ ComposeEffect
    \/ LoadEffect

Spec == Init /\ [][Next]_vars

-----------------------------------------------------------------------------
(* The layer builders on their own: BuilderSpec draws a building list and a  *)
(* metric source and applies one builder to them.  cityData, git and quality *)
(* hold the inputs, highlightLayers the builder's output.                    *)

\* two paths the metric sources know and one they do not
BuilderPaths == {"a.ts", "b.md", "c.ts"}

\* building lists, repeated paths included
BuildingInputs ==
    UNION {[1..k -> {[path |-> p, fileExtension |-> "ts"] : p \in BuilderPaths}] :
             k \in 0..MaxBuildings}

GitPathLists ==
    { <<>>, <<"a.ts">>, <<"b.md">>, <<"gone.ts">>, <<"a.ts", "b.md">>,
      <<"b.md", "a.ts", "a.ts">> }

GitBuilderInputs ==
    {GitStatusOf(s, u, t, d) : s \in GitPathLists, u \in GitPathLists,
                               t \in GitPathLists, d \in GitPathLists}

CoveragePaths == {"a.ts", "b.md", "gone.ts"}

\* percentages on both sides of every range edge, and outside 0..100
CoverageValues == {-5, 0, 1, 19, 20, 49, 50, 79, 80, 100, 120}

CoverageInputs == UNION {[D -> CoverageValues] : D \in SUBSET CoveragePaths}

\* issue counts on both sides of every bucket edge
IssueCounts == {0, 1, 3, 4, 10, 11, 25, 26}

\* FileMetricData: the issues of a file are all errors or all warnings
MetricRecords ==
    UNION {{[file |-> f, issueCount |-> n, errorCount |-> e, warningCount |-> n - e] :
               f \in {"a.ts", "b.md"}, e \in {0, n}} : n \in IssueCounts}

MetricInputs == {<<>>} \cup {<<r>> : r \in MetricRecords}
                      \cup {<<r1, r2>> : r1 \in MetricRecords, r2 \in MetricRecords}

\* five files, one per coverage bucket except `low`
ScenarioBuildings ==
    << [path |-> "a.ts", fileExtension |-> "ts"],
       [path |-> "b.ts", fileExtension |-> "ts"],
       [path |-> "c.ts", fileExtension |-> "ts"],
       [path |-> "d.ts", fileExtension |-> "ts"],
       [path |-> "e.ts", fileExtension |-> "ts"] >>

ScenarioCoverage ==
    [p \in {"a.ts", "b.ts", "c.ts", "d.ts"} |->
        CASE p = "a.ts" -> 85
          [] p = "b.ts" -> 50
          [] p = "c.ts" -> 19
          [] p = "d.ts" -> 0]

BuilderInit ==
    /\ repoPath = "/repo/one"
    /\ lastRepoPath = repoPath
    /\ fileTree = Null
    /\ agent = Null
    /\ highlightLayers = <<>>
    /\ loading = FALSE
    /\ pending = {}
    /\ dirty = {}
    /\ lastOp = "none"
    /\ \/ /\ \E b \in BuildingInputs : cityData = Some([buildings |-> b])
          /\ \/ /\ colorMode = "git"
                /\ \E g \in GitBuilderInputs : git = Some(g)
                /\ quality = Null
             \/ /\ colorMode = "coverage"
                /\ git = Null
                /\ \E cov \in CoverageInputs : quality = Some(QualityOf(Some(cov), Null))
             \/ /\ colorMode \in MetricIds
                /\ git = Null
                /\ \E ms \in MetricInputs :
                      quality = Some(QualityOf(Null, Some([NoMetrics EXCEPT ![colorMode] = Some(ms)])))
       \/ /\ cityData = Some([buildings |-> ScenarioBuildings])
          /\ colorMode = "coverage"
          /\ git = Null
          /\ quality = Some(QualityOf(Some(ScenarioCoverage), Null))

Built(op, layers) ==
    /\ lastOp = "none"
    /\ highlightLayers' = layers
    /\ lastOp' = op
    /\ UNCHANGED <<repoPath, lastRepoPath, fileTree, git, quality, agent,
                   cityData, colorMode, loading, pending, dirty>>

BuildGit ==
    /\ colorMode = "git"
    /\ Built("gitStatusLayers", gitStatusLayersOf(cityData, git))

BuildCoverage ==
    /\ colorMode = "coverage"
    /\ Built("createCoverageHighlightLayers",
             createCoverageHighlightLayers(Val(cityData).buildings,
                                           Val(Val(quality).fileCoverage)))

BuildMetric ==
    /\ colorMode \in MetricIds
    /\ Built("createMetricHighlightLayers",
             createMetricHighlightLayers(Val(cityData).buildings,
                                         Val(MetricSource(quality, colorMode)),
                                         colorMode))

BuilderNext == BuildGit \/ BuildCoverage \/ BuildMetric

BuilderSpec == BuilderInit /\ [][BuilderNext]_vars

-----------------------------------------------------------------------------
(* The mode dropdown on its own: AvailabilitySpec draws a git slice and a    *)
(* quality slice with every combination of absent, empty and filled metric   *)
(* sources, and selects one of the modes the dropdown offers.                *)

CoverageSourceInputs == {Null, Some([p \in {} |-> 0]), Some([p \in {"a.ts"} |-> 85])}

MetricSourceInputs == {Null, Some(<<>>), Some(<<[file |-> "a.ts", issueCount |-> 2]>>)}

AvailabilityQualityInputs ==
    {Null} \cup
    {Some(QualityOf(cov, fm)) :
        cov \in CoverageSourceInputs,
        fm \in {Null} \cup {Some(f) : f \in [MetricIds -> MetricSourceInputs]}}

AvailabilityInit ==
    /\ repoPath = "/repo/one"
    /\ lastRepoPath = repoPath
    /\ fileTree = Null
    /\ agent = Null
    /\ cityData = Null
    /\ colorMode = "fileTypes"
    /\ highlightLayers = <<>>
    /\ loading = FALSE
    /\ pending = {}
    /\ dirty = {}
    /\ lastOp = "none"
    /\ git \in GitInputs
    /\ quality \in AvailabilityQualityInputs

AvailabilityNext == \E m \in Range(COLOR_MODES) : SelectColorMode(m)

AvailabilitySpec == AvailabilityInit /\ [][AvailabilityNext]_vars

-----------------------------------------------------------------------------
(* Vocabulary of the properties *)

PathsInLayer(layer) == {layer.items[k].path : k \in 1..Len(layer.items)}

\* no path is in the items of two different layers
Partitioned(layers) ==
    \A i \in 1..Len(layers), j \in 1..Len(layers) :
        i # j => PathsInLayer(layers[i]) \cap PathsInLayer(layers[j]) = {}

ItemPathsOfId(layers, id) ==
    UNION {PathsInLayer(layers[i]) : i \in {j \in 1..Len(layers) : layers[j].id = id}}

BuildingPaths == IF cityData = Null THEN {} ELSE Range(PathsOf(Val(cityData).buildings))

GitCategories == {"staged", "unstaged", "untracked", "deleted"}

GitLayerId(category) == <<"git-highlight", category>>

\* the git categories that list path p
ListedIn(p) == {c \in GitCategories : p \in Range(Val(git)[c])}

GitCategoriesDisjoint ==
    \A c1 \in GitCategories, c2 \in GitCategories :
        c1 # c2 => Range(Val(git)[c1]) \cap Range(Val(git)[c2]) = {}

\* staged > deleted > unstaged > untracked
PrecedenceOrder == <<"staged", "deleted", "unstaged", "untracked">>

FirstByPrecedence(cats) ==
    PrecedenceOrder[CHOOSE i \in 1..4 :
        /\ PrecedenceOrder[i] \in cats
        /\ \A j \in 1..(i - 1) : PrecedenceOrder[j] \notin cats]

\* ids the composition effect gives to the layers of the current agent feed
FeedIds == Range(LayerIds(formattedAgentLayers(agent)))

IsModeLayer(layer) == layer.id \notin FeedIds

\* the layer set is up to date with the inputs of the composition effect
Composed == "compose" \notin (pending \cup dirty)

-----------------------------------------------------------------------------
(* C1: in every settled state the active color mode is one of the available *)
(* color modes (COLOR_MODES filtered by isColorModeAvailable); when the mode *)
(* is `coverage` and the coverage data disappears, it falls back to          *)
(* `fileTypes`.                                                              *)
C1_ActiveModeAvailable ==
    Idle => colorMode \in Range(availableColorModes)

(* C2: in every layer set the composition effect produces with both mode     *)
(* layers and annotation layers, every annotation layer has priority 150     *)
(* whatever the feed supplied, every mode layer has priority at most 110,    *)
(* and so every annotation layer is above every mode layer.                  *)
C2_PriorityDominance ==
    (lastOp = "composeEffect" /\ modeLayers # <<>> /\ FeedIds # {}) =>
        \A a \in Range(highlightLayers), m \in Range(highlightLayers) :
            (~IsModeLayer(a) /\ IsModeLayer(m)) =>
                /\ a.priority = 150
                /\ m.priority <= 110
                /\ a.priority > m.priority

C4_UniqueLayerIds ==
    \A i \in 1..Len(highlightLayers), j \in 1..Len(highlightLayers) :
        i # j => highlightLayers[i].id # highlightLayers[j].id

(* C5 as stated: in the output of every builder (coverage, issue count, git  *)
(* status) each path is in the items of at most one layer.                   *)
C5_PartitionAllBuilders ==
    lastOp # "none" => Partitioned(highlightLayers)

(* C5: in the output of the coverage builder and of the issue-count builder  *)
(* each path is in the items of at most one layer; in the output of the      *)
(* git-status builder this holds when no path is listed in two categories.   *)
C5_Partition ==
    /\ lastOp \in {"createCoverageHighlightLayers", "createMetricHighlightLayers"}
          => Partitioned(highlightLayers)
    /\ (lastOp = "gitStatusLayers" /\ GitCategoriesDisjoint)
          => Partitioned(highlightLayers)

C5_Witness ==
    /\ lastOp = "createCoverageHighlightLayers"
    /\ Len(highlightLayers) >= 2
    /\ \E layer \in Range(highlightLayers) : layer.id = <<"coverage", "nodata">>

(* C6 as stated: a building's path that is listed in several git categories  *)
(* is in the items of exactly one git layer, the one of the first listing    *)
(* category in the order staged > deleted > unstaged > untracked.            *)
C6_GitPrecedence ==
    lastOp = "gitStatusLayers" =>
        \A p \in BuildingPaths :
            ListedIn(p) # {} =>
                {c \in GitCategories : p \in ItemPathsOfId(highlightLayers, GitLayerId(c))}
                    = {FirstByPrecedence(ListedIn(p))}

(* C6: no precedence is applied: the items of the layer of a git category    *)
(* are exactly the paths listed in that category that are buildings, so a    *)
(* building's path listed in several categories is in the layer of each of   *)
(* them (one in `staged` and `unstaged` is in both layers).                  *)
C6_GitLayerItems ==
    lastOp = "gitStatusLayers" =>
        \A c \in GitCategories :
            ItemPathsOfId(highlightLayers, GitLayerId(c))
                = Range(Val(git)[c]) \cap BuildingPaths

C6_Witness ==
    /\ lastOp = "gitStatusLayers"
    /\ "a.ts" \in BuildingPaths
    /\ {"staged", "unstaged"} \subseteq ListedIn("a.ts")
    /\ "a.ts" \in ItemPathsOfId(highlightLayers, GitLayerId("staged"))
    /\ "a.ts" \in ItemPathsOfId(highlightLayers, GitLayerId("unstaged"))

-----------------------------------------------------------------------------
(* Steps of the handlers, seen from outside *)

ToggleOps == {"toggleGitStatus", "toggleAgentLayer", "toggleQualityMetric"}

SameButEnabled(l1, l2) ==
    /\ l1.id = l2.id
    /\ l1.name = l2.name
    /\ l1.color = l2.color
    /\ l1.priority = l2.priority
    /\ l1.items = l2.items

\* `after` is `before` with the enabled flag of exactly the layers with id
\* `id` flipped
FlipsOnly(before, after, id) ==
    /\ Len(after) = Len(before)
    /\ \A i \in 1..Len(before) :
          /\ SameButEnabled(before[i], after[i])
          /\ after[i].enabled = (IF before[i].id = id THEN ~before[i].enabled
                                 ELSE before[i].enabled)

UnknownId == <<"git-highlight", "renamed">>

\* the layers of `layers` whose id is unique among the feed's ids and in
\* `layers`
SingleAnnotationIds(layers) ==
    {id \in FeedIds :
        /\ Cardinality({i \in 1..Len(layers) : layers[i].id = id}) = 1
        /\ Cardinality({k \in 1..Len(formattedAgentLayers(agent)) :
                            formattedAgentLayers(agent)[k].id = id}) = 1}

EnabledOfId(layers, id) ==
    layers[CHOOSE i \in 1..Len(layers) : layers[i].id = id].enabled

(* C7: a toggle by id flips the enabled flag of the layers with that id and  *)
(* changes nothing else: items, id, color, priority, the other layers, the   *)
(* order and the number of layers; an id that is not in the layer set        *)
(* changes nothing, and toggling the same id twice restores the layer set.   *)
C7_ToggleIndependence ==
    /\ [][lastOp' \in ToggleOps =>
            \E id \in Range(LayerIds(highlightLayers)) :
                FlipsOnly(highlightLayers, highlightLayers', id)]_vars
    /\ [](/\ ToggleLayer(highlightLayers, UnknownId) = highlightLayers
          /\ \A id \in Range(LayerIds(highlightLayers)) :
                /\ FlipsOnly(highlightLayers, ToggleLayer(highlightLayers, id), id)
                /\ ToggleLayer(ToggleLayer(highlightLayers, id), id) = highlightLayers)

C7_Witness ==
    /\ lastOp = "toggleGitStatus"
    /\ Len(highlightLayers) >= 3
    /\ \E i \in 1..Len(highlightLayers), j \in 1..Len(highlightLayers) :
          /\ highlightLayers[i].id = <<"git-highlight", "staged">>
          /\ ~highlightLayers[i].enabled
          /\ highlightLayers[j].enabled

(* C8: the composition that follows a mode selection enables every layer of  *)
(* the new mode and keeps the enabled flag of every annotation layer as the  *)
(* user left it.                                                             *)
C8_ModeChangeKeepsAnnotationEnabled ==
    [][(lastOp = "setColorMode" /\ lastOp' = "composeEffect") =>
          /\ \A layer \in Range(highlightLayers') :
                IsModeLayer(layer) => layer.enabled
          /\ \A id \in SingleAnnotationIds(highlightLayers) :
                EnabledOfId(highlightLayers', id) = EnabledOfId(highlightLayers, id)]_vars

(* C9: the reset step empties the layer set and sets the mode to `fileTypes` *)
(* when the repository path differs from the last observed one, and changes  *)
(* nothing when it does not; a path that differs always has the reset step   *)
(* pending.                                                                  *)
C9_ResetOnScopeChange ==
    [][/\ lastOp' = "resetEffect" =>
            IF lastRepoPath # repoPath
            THEN /\ highlightLayers' = <<>>
                 /\ colorMode' = "fileTypes"
                 /\ lastRepoPath' = repoPath
            ELSE UNCHANGED <<highlightLayers, colorMode, lastRepoPath, cityData,
                             loading>>
       /\ lastRepoPath' # repoPath' => "reset" \in pending']_vars

C9_Witness ==
    /\ lastOp = "resetEffect"
    /\ lastRepoPath = "/repo/two"
    /\ highlightLayers = <<>>
    /\ colorMode = "fileTypes"
    /\ "compose" \in (pending \cup dirty)
    /\ cityData # Null
    /\ agent # Null

(* C10: after clearAgentLayers no layer derived from the agent feed is left  *)
(* in the layer set, and the mode layers are the same as before, in the same *)
(* order.                                                                    *)
C10_ClearRemovesAnnotationLayers ==
    [][lastOp' = "clearAgentLayers" =>
          /\ \A layer \in Range(highlightLayers') : IsModeLayer(layer)
          /\ SelectSeq(highlightLayers', IsModeLayer)
                = SelectSeq(highlightLayers, IsModeLayer)]_vars

-----------------------------------------------------------------------------
(* Recomputation of the layer set *)

\* the color mode whose builder emits layers with this id
ModeOfLayerId(id) ==
    IF StartsWith(id, "ext") THEN "fileTypes"
    ELSE IF StartsWith(id, "git-highlight") THEN "git"
    ELSE id[1]

ModePart(layers) == SelectSeq(layers, IsModeLayer)

AnnotationPart(layers) == SelectSeq(layers, LAMBDA layer : ~IsModeLayer(layer))

(* C11: the composition that follows a mode selection replaces the mode      *)
(* layers: afterwards no mode layer of the layer set before the selection is *)
(* left, the mode layers are exactly the layers the builder of the new mode  *)
(* emits, each with an id of the new mode, and every annotation layer that   *)
(* was in the layer set before is still there with the same id and items.    *)
(* (In the state between the selection and the effect colorMode is already   *)
(* the new mode, so modeLayers there is the output of the new mode's         *)
(* builder.)                                                                 *)
C11_ModeChangeReplacesModeLayers ==
    [][(lastOp = "setColorMode" /\ lastOp' = "composeEffect") =>
          /\ \A old \in Range(ModePart(highlightLayers)) :
                old.id \notin Range(LayerIds(highlightLayers'))
          /\ colorMode' = colorMode
          /\ ModePart(highlightLayers') = modeLayers
          /\ \A layer \in Range(ModePart(highlightLayers')) :
                ModeOfLayerId(layer.id) = colorMode
          /\ \A a \in Range(AnnotationPart(highlightLayers)) :
                \E b \in Range(highlightLayers') :
                    b.id = a.id /\ b.items = a.items]_vars

C11_Witness ==
    /\ lastOp = "composeEffect"
    /\ colorMode = "git"
    /\ fileColorLayers # <<>>
    /\ Len(ModePart(highlightLayers)) >= 2
    /\ Len(AnnotationPart(highlightLayers)) >= 2
    /\ \A layer \in Range(ModePart(highlightLayers)) : ModeOfLayerId(layer.id) = "git"

(* C12 as stated: a layer set that holds layers becomes empty only through   *)
(* the reset that follows a change of repository; no mode change, data       *)
(* update, toggle or clearAgentLayers empties it.                            *)
C12_EmptyOnlyThroughReset ==
    [][(highlightLayers # <<>> /\ highlightLayers' = <<>>) =>
          (lastOp' = "resetEffect" /\ lastRepoPath # repoPath)]_vars

(* C12: an empty layer set becomes populated only by the composition effect; *)
(* a populated one becomes empty only by the reset after a change of         *)
(* repository, by a composition whose mode builder and agent feed yield no   *)
(* layer, or by clearAgentLayers on a layer set of `event-highlight` layers  *)
(* only; a toggle never changes the number of layers.                        *)
C12_Lifecycle ==
    [][/\ (highlightLayers = <<>> /\ highlightLayers' # <<>>) =>
              lastOp' = "composeEffect"
       /\ (highlightLayers # <<>> /\ highlightLayers' = <<>>) =>
              \/ lastOp' = "resetEffect" /\ lastRepoPath # repoPath
              \/ lastOp' = "composeEffect" /\ allLayers = <<>>
              \/ /\ lastOp' = "clearAgentLayers"
                 /\ \A layer \in Range(highlightLayers) :
                       StartsWith(layer.id, "event-highlight")
       /\ (lastOp' \in ToggleOps \cup {"toggleFileType"}) =>
              Len(highlightLayers') = Len(highlightLayers)]_vars

C12_Witness ==
    /\ lastOp = "clearAgentLayers"
    /\ highlightLayers = <<>>
    /\ lastRepoPath = repoPath
    /\ agent # Null

(* C13: right after the composition effect the layer set is the output of    *)
(* the active mode's builder for the current inputs followed, in this order, *)
(* by one layer per layer of the current agent feed, in feed order, and      *)
(* nothing else: every mode layer carries an id of the active mode.          *)
C13_LastRecomputationWins ==
    lastOp = "composeEffect" =>
        LET n == Len(modeLayers)
            feed == IF agent = Null THEN <<>> ELSE Val(agent)
        IN /\ Len(highlightLayers) = n + Len(feed)
           /\ SubSeq(highlightLayers, 1, n) = modeLayers
           /\ \A i \in 1..n : ModeOfLayerId(highlightLayers[i].id) = colorMode
           /\ \A k \in 1..Len(feed) :
                 /\ highlightLayers[n + k].items = feed[k].items
                 /\ highlightLayers[n + k].name = feed[k].name
                 /\ highlightLayers[n + k].enabled = feed[k].enabled
                 /\ highlightLayers[n + k].id =
                       (IF feed[k].id # NoId THEN feed[k].id
                        ELSE <<"event-highlight", ToString(k - 1)>>)

C13_Witness ==
    /\ lastOp = "composeEffect"
    /\ Idle
    /\ colorMode = "coverage"
    /\ Len(modeLayers) >= 2
    /\ agent # Null
    /\ Len(highlightLayers) = Len(modeLayers) + 2

-----------------------------------------------------------------------------
(* Mode availability *)

\* the metric source of a quality mode is present and has at least one entry
OwnSourceHasEntries(mode) ==
    /\ quality # Null
    /\ IF mode = "coverage"
       THEN /\ Val(quality).fileCoverage # Null
            /\ Cardinality(DOMAIN Val(Val(quality).fileCoverage)) >= 1
       ELSE /\ Val(quality).fileMetrics # Null
            /\ Val(Val(quality).fileMetrics)[mode] # Null
            /\ Len(Val(Val(Val(quality).fileMetrics)[mode])) >= 1

ExpectedAvailable(mode) ==
    \/ mode = "fileTypes"
    \/ mode = "git" /\ hasGitData
    \/ mode \in QualityModeIds /\ OwnSourceHasEntries(mode)

FixedModeOrder ==
    <<"fileTypes", "git", "coverage", "eslint", "typescript", "prettier", "knip",
      "alexandria">>

(* C15: isColorModeAvailable is true for `fileTypes` whatever the inputs,    *)
(* equals hasGitData for `git`, and for a quality mode is true iff the       *)
(* quality data is present and the mode's own source has at least one entry, *)
(* whatever the other sources hold; the available modes are the fixed list   *)
(* fileTypes, git, coverage, eslint, typescript, prettier, knip, alexandria  *)
(* filtered by it, so they start with `fileTypes`, and a mode selected from  *)
(* the dropdown is one of them.                                              *)
C15_AvailabilityPredicate ==
    /\ \A h \in BOOLEAN :
          /\ isColorModeAvailable("fileTypes", quality, h)
          /\ isColorModeAvailable("git", quality, h) = h
          /\ \A mode \in QualityModeIds :
                isColorModeAvailable(mode, quality, h) = OwnSourceHasEntries(mode)
    /\ availableColorModes = SelectSeq(FixedModeOrder, ExpectedAvailable)
    /\ availableColorModes[1] = "fileTypes"
    /\ lastOp = "setColorMode" => ExpectedAvailable(colorMode)

C15_Witness ==
    /\ lastOp = "setColorMode"
    /\ colorMode = "typescript"
    /\ git # Null
    /\ ~hasGitData
    /\ Val(quality).fileCoverage = Some([p \in {} |-> 0])
    /\ Val(Val(quality).fileMetrics)["eslint"] = Some(<<>>)
    /\ Val(Val(quality).fileMetrics)["knip"] = Null
    /\ availableColorModes = <<"fileTypes", "typescript", "alexandria">>

-----------------------------------------------------------------------------
(* Bucketing *)

CoverageOf(p) == Val(Val(quality).fileCoverage)[p]

HasCoverage(p) == p \in DOMAIN Val(Val(quality).fileCoverage)

Clamped(c) == IF c > 100 THEN 100 ELSE IF c < 0 THEN 0 ELSE c

\* the ranges of the coverage buckets, on the clamped percentage
ExpectedCoverageBucket(p) ==
    IF ~HasCoverage(p) THEN "noData"
    ELSE LET c == Clamped(CoverageOf(p))
         IN IF c >= 80 /\ c <= 100 THEN "high"
            ELSE IF c >= 50 /\ c < 80 THEN "medium"
            ELSE IF c >= 20 /\ c < 50 THEN "low"
            ELSE IF c > 0 /\ c < 20 THEN "veryLow"
            ELSE "zero"

\* ids of the layers of `layers` that hold path p
LayerIdsHolding(layers, p) ==
    {layers[i].id : i \in {j \in 1..Len(layers) : p \in PathsInLayer(layers[j])}}

CoverageLayerIdOf(bucket) ==
    CASE bucket = "high" -> <<"coverage", "high">>
      [] bucket = "medium" -> <<"coverage", "medium">>
      [] bucket = "low" -> <<"coverage", "low">>
      [] bucket = "veryLow" -> <<"coverage", "verylow">>
      [] bucket = "zero" -> <<"coverage", "zero">>
      [] bucket = "noData" -> <<"coverage", "nodata">>

(* C16: the coverage builder puts every building in the layer of exactly one *)
(* bucket: [80,100] high, [50,80) medium, [20,50) low, (0,20) veryLow, 0     *)
(* zero, no entry noData, a percentage outside 0..100 counting as its        *)
(* clamped value; so exactly 50 is medium and exactly 80 is high.            *)
C16_CoverageBucketing ==
    lastOp = "createCoverageHighlightLayers" =>
        \A p \in BuildingPaths :
            LayerIdsHolding(highlightLayers, p)
                = {CoverageLayerIdOf(ExpectedCoverageBucket(p))}

C16_Witness ==
    /\ lastOp = "createCoverageHighlightLayers"
    /\ BuildingPaths = {"a.ts", "b.md"}
    /\ HasCoverage("a.ts") /\ CoverageOf("a.ts") = 50
    /\ HasCoverage("b.md") /\ CoverageOf("b.md") = 120
    /\ LayerIdsHolding(highlightLayers, "a.ts") = {<<"coverage", "medium">>}
    /\ LayerIdsHolding(highlightLayers, "b.md") = {<<"coverage", "high">>}

InScenario ==
    /\ lastOp = "createCoverageHighlightLayers"
    /\ cityData = Some([buildings |-> ScenarioBuildings])
    /\ quality = Some(QualityOf(Some(ScenarioCoverage), Null))

\* the layers as pairs of id and set of item paths
IdsWithPaths(layers) ==
    {<<layers[i].id, PathsInLayer(layers[i])>> : i \in 1..Len(layers)}

(* C17 as stated: a.ts, b.ts, c.ts, d.ts, e.ts with coverage 85, 50, 19, 0   *)
(* and none give exactly five layers, `coverage-high` {a.ts},                *)
(* `coverage-medium` {b.ts}, `coverage-veryLow` {c.ts}, `coverage-zero`      *)
(* {d.ts}, `coverage-nodata` {e.ts}, and no `coverage-low` layer.            *)
C17_ScenarioAsStated ==
    InScenario =>
        /\ Len(highlightLayers) = 5
        /\ IdsWithPaths(highlightLayers) =
              { <<<<"coverage", "high">>, {"a.ts"}>>,
                <<<<"coverage", "medium">>, {"b.ts"}>>,
                <<<<"coverage", "veryLow">>, {"c.ts"}>>,
                <<<<"coverage", "zero">>, {"d.ts"}>>,
                <<<<"coverage", "nodata">>, {"e.ts"}>> }

(* C17: the same files give exactly five layers, `coverage-high` {a.ts},     *)
(* `coverage-medium` {b.ts}, `coverage-verylow` {c.ts}, `coverage-zero`      *)
(* {d.ts}, `coverage-nodata` {e.ts}, and no `coverage-low` layer: the id is  *)
(* `coverage-` followed by the bucket name in lower case.                    *)
C17_Scenario ==
    InScenario =>
        /\ Len(highlightLayers) = 5
        /\ IdsWithPaths(highlightLayers) =
              { <<<<"coverage", "high">>, {"a.ts"}>>,
                <<<<"coverage", "medium">>, {"b.ts"}>>,
                <<<<"coverage", "verylow">>, {"c.ts"}>>,
                <<<<"coverage", "zero">>, {"d.ts"}>>,
                <<<<"coverage", "nodata">>, {"e.ts"}>> }
        /\ <<"coverage", "low">> \notin Range(LayerIds(highlightLayers))

C17_Witness ==
    /\ InScenario
    /\ LayerIds(highlightLayers) =
          << <<"coverage", "high">>, <<"coverage", "medium">>, <<"coverage", "verylow">>,
             <<"coverage", "zero">>, <<"coverage", "nodata">> >>

\* the metric source of the active mode, and the record it holds for path p
\* (the last one, should the source list the file twice)
ActiveMetrics == Val(MetricSource(quality, colorMode))

RecordIndexes(p) == {i \in 1..Len(ActiveMetrics) : ActiveMetrics[i].file = p}

RecordOf(p) ==
    ActiveMetrics[CHOOSE i \in RecordIndexes(p) : \A j \in RecordIndexes(p) : j <= i]

ExpectedIssueBucket(p) ==
    IF RecordIndexes(p) = {} THEN "nodata"
    ELSE LET n == RecordOf(p).issueCount
         IN IF n = 0 THEN "clean"
            ELSE IF n >= 1 /\ n <= 3 THEN "minor"
            ELSE IF n >= 4 /\ n <= 10 THEN "moderate"
            ELSE IF n >= 11 /\ n <= 25 THEN "significant"
            ELSE "severe"

(* C18: the issue-count builder puts every building in the layer of exactly  *)
(* one bucket, chosen by the issueCount of the file's record whatever its    *)
(* errorCount and warningCount: 0 clean, 1-3 minor, 4-10 moderate, 11-25     *)
(* significant, above 25 severe, no record noData.                           *)
C18_IssueCountBucketing ==
    lastOp = "createMetricHighlightLayers" =>
        \A p \in BuildingPaths :
            LayerIdsHolding(highlightLayers, p) = {<<colorMode, ExpectedIssueBucket(p)>>}

C18_Witness ==
    /\ lastOp = "createMetricHighlightLayers"
    /\ colorMode = "eslint"
    /\ ActiveMetrics = << [file |-> "a.ts", issueCount |-> 3, errorCount |-> 3, warningCount |-> 0],
                          [file |-> "b.md", issueCount |-> 4, errorCount |-> 0, warningCount |-> 4] >>
    /\ LayerIdsHolding(highlightLayers, "a.ts") = {<<"eslint", "minor">>}
    /\ LayerIdsHolding(highlightLayers, "b.md") = {<<"eslint", "moderate">>}

-----------------------------------------------------------------------------
(* Which layers the builders emit *)

FixedGitPriority(category) ==
    CASE category = "staged" -> 100
      [] category = "unstaged" -> 90
      [] category = "untracked" -> 80
      [] category = "deleted" -> 110

IndexesOfId(layers, id) == {i \in 1..Len(layers) : layers[i].id = id}

(* C19: the git-status builder emits for each category exactly one layer if  *)
(* a path listed in the category is a building and none otherwise; the layer *)
(* has the category's id and priority (staged 100, unstaged 90, untracked    *)
(* 80, deleted 110), is enabled, and its items are paths of buildings listed *)
(* in the category; it emits no other layer.                                 *)
C19_GitStatusBuilder ==
    lastOp = "gitStatusLayers" =>
        /\ \A c \in GitCategories :
              LET resolved == Range(Val(git)[c]) \cap BuildingPaths
                  idx == IndexesOfId(highlightLayers, GitLayerId(c))
              IN /\ Cardinality(idx) = (IF resolved # {} THEN 1 ELSE 0)
                 /\ \A i \in idx :
                       /\ highlightLayers[i].priority = FixedGitPriority(c)
                       /\ highlightLayers[i].enabled
                       /\ PathsInLayer(highlightLayers[i]) # {}
                       /\ PathsInLayer(highlightLayers[i]) \subseteq resolved
        /\ \A layer \in Range(highlightLayers) :
              \E c \in GitCategories : layer.id = GitLayerId(c)

C19_Witness ==
    /\ lastOp = "gitStatusLayers"
    /\ BuildingPaths = {"a.ts"}
    /\ Val(git).staged = <<"a.ts", "b.md">>
    /\ Val(git).deleted = <<"gone.ts">>
    /\ IndexesOfId(highlightLayers, GitLayerId("staged")) # {}
    /\ IndexesOfId(highlightLayers, GitLayerId("deleted")) = {}
    /\ ItemPathsOfId(highlightLayers, GitLayerId("staged")) = {"a.ts"}

BucketNames ==
    IF colorMode = "coverage"
    THEN {"high", "medium", "low", "verylow", "zero", "nodata"}
    ELSE {"clean", "minor", "moderate", "significant", "severe", "nodata"}

\* id of the layer of the bucket a building falls in
ExpectedBucketId(p) ==
    IF colorMode = "coverage" THEN CoverageLayerIdOf(ExpectedCoverageBucket(p))
    ELSE <<colorMode, ExpectedIssueBucket(p)>>

(* C20: the coverage builder and the issue-count builder emit the layer of a *)
(* bucket iff a building falls in the bucket, never two layers for one       *)
(* bucket and never a layer without items; for an empty building list they   *)
(* emit nothing.                                                             *)
C20_OneLayerPerNonEmptyBucket ==
    lastOp \in {"createCoverageHighlightLayers", "createMetricHighlightLayers"} =>
        /\ \A b \in BucketNames :
              Cardinality(IndexesOfId(highlightLayers, <<colorMode, b>>))
                  = (IF \E p \in BuildingPaths : ExpectedBucketId(p) = <<colorMode, b>>
                     THEN 1 ELSE 0)
        /\ \A layer \in Range(highlightLayers) :
              /\ Len(layer.items) > 0
              /\ \E b \in BucketNames : layer.id = <<colorMode, b>>
        /\ BuildingPaths = {} => highlightLayers = <<>>

C20_Witness ==
    /\ lastOp = "createMetricHighlightLayers"
    /\ colorMode = "typescript"
    /\ BuildingPaths = {"a.ts", "b.md"}
    /\ Len(highlightLayers) = 1
    /\ PathsInLayer(highlightLayers[1]) = {"a.ts", "b.md"}
    /\ highlightLayers[1].id = <<"typescript", "severe">>

-----------------------------------------------------------------------------
(* Absent metric data *)

\* the metric source of the active quality mode is missing as a whole
ActiveSourceAbsent ==
    IF colorMode = "coverage"
    THEN quality = Null \/ Val(quality).fileCoverage = Null
    ELSE MetricSource(quality, colorMode) = Null

\* building p has no entry in the (present) source of the active quality mode
NoEntryFor(p) ==
    IF colorMode = "coverage" THEN ~HasCoverage(p) ELSE RecordIndexes(p) = {}

QualityComposed ==
    /\ lastOp = "composeEffect"
    /\ colorMode \in QualityModeIds
    /\ cityData # Null

C21_WitnessNoEntry ==
    /\ QualityComposed
    /\ colorMode = "eslint"
    /\ ~ActiveSourceAbsent
    /\ BuildingPaths = {"a.ts", "b.md"}
    /\ NoEntryFor("b.md")
    /\ LayerIdsHolding(highlightLayers, "b.md") = {<<"eslint", "nodata">>}
    /\ LayerIdsHolding(highlightLayers, "a.ts") = {<<"eslint", "minor">>}

-----------------------------------------------------------------------------
(* The issue-count modes side by side *)

\* the layers with the first token of their id taken off
Unprefixed(layers) ==
    [i \in 1..Len(layers) |-> [layers[i] EXCEPT !.id = Tail(layers[i].id)]]

IssueBucketSuffixes ==
    {<<"clean">>, <<"minor">>, <<"moderate">>, <<"significant">>, <<"severe">>,
     <<"nodata">>}

\* what mode `other` yields for the buildings and the records of the active
\* mode
OutputOfMode(other) ==
    getLayersForColorMode(
        other, Val(cityData).buildings,
        Some(QualityOf(Null, Some([NoMetrics EXCEPT ![other] = Some(ActiveMetrics)]))),
        <<>>, <<>>)

(* C22: for the same buildings and the same records the five issue-count     *)
(* modes yield the same layers in the same order (names, colors, priorities, *)
(* enabled flags, items) up to the id, which is the mode's own id followed   *)
(* by clean, minor, moderate, significant, severe or nodata; so no id of one *)
(* mode is an id of another.                                                 *)
C22_SharedIssueCountBuilder ==
    lastOp = "createMetricHighlightLayers" =>
        \A other \in MetricIds :
            LET out == OutputOfMode(other)
            IN /\ Unprefixed(out) = Unprefixed(highlightLayers)
               /\ \A i \in 1..Len(out) :
                     /\ out[i].id[1] = other
                     /\ Tail(out[i].id) \in IssueBucketSuffixes
               /\ other # colorMode =>
                     \A i \in 1..Len(out), j \in 1..Len(highlightLayers) :
                         out[i].id # highlightLayers[j].id

C22_Witness ==
    /\ lastOp = "createMetricHighlightLayers"
    /\ colorMode = "knip"
    /\ LayerIds(highlightLayers) = << <<"knip", "clean">>, <<"knip", "significant">> >>
    /\ LayerIds(OutputOfMode("prettier"))
          = << <<"prettier", "clean">>, <<"prettier", "significant">> >>

-----------------------------------------------------------------------------
(* Updates of the host's slices *)

\* the slice updated last is not the metric source of the active mode
UnrelatedUpdate ==
    \/ lastOp = "updateGit" /\ colorMode # "git"
    \/ lastOp = "updateQuality" /\ colorMode \notin QualityModeIds

(* C23: an update of the git slice while the mode is not `git`, or of the    *)
(* quality slice while the mode is not a quality mode, leaves the layer set  *)
(* as it is, the enabled flags the user toggled included: the composition    *)
(* that follows such an update changes nothing.                              *)
C23_UnrelatedUpdateKeepsLayers ==
    [][(UnrelatedUpdate /\ lastOp' = "composeEffect") =>
          highlightLayers' = highlightLayers]_vars

-----------------------------------------------------------------------------
(* Change of repository *)

\* The commit of a repository change whose reset also changed the mode, for
\* a repository without file tree: the load effect has run without a tree
\* and the composition is still to come.  (Without a tree the load effect
\* schedules no composition, so the pending one stems from the reset, and
\* cityData is the city built for the previous repository.)
AfterResetWithoutTree ==
    /\ lastOp = "loadEffect"
    /\ fileTree = Null
    /\ "compose" \in pending

(* C24: after a change of repository to one without file tree, made while    *)
(* the mode was not `fileTypes`, the composition that follows the reset      *)
(* leaves the layer set without mode layers: nothing is computed from the    *)
(* city of the previous repository.                                          *)
C24_NoLayersFromPreviousCity ==
    [][(AfterResetWithoutTree /\ lastOp' = "composeEffect") =>
          ModePart(highlightLayers') = <<>>]_vars

-----------------------------------------------------------------------------
(* Items of the quality builders *)

\* the positions <<layer, item>> of all items of `layers`
ItemSlots(layers) ==
    UNION {{<<i, k>> : k \in 1..Len(layers[i].items)} : i \in 1..Len(layers)}

SlotPath(layers, slot) == layers[slot[1]].items[slot[2]].path

(* C25: in the output of the coverage builder and of the issue-count builder *)
(* every distinct building path is the path of exactly one item over all     *)
(* layers, also when the building list repeats a path; no item has a path    *)
(* that is not a building; and the layers hold as many items as there are    *)
(* distinct building paths.                                                  *)
C25_ExactPartition ==
    lastOp \in {"createCoverageHighlightLayers", "createMetricHighlightLayers"} =>
        LET slots == ItemSlots(highlightLayers)
        IN /\ \A p \in BuildingPaths :
                 Cardinality({slot \in slots : SlotPath(highlightLayers, slot) = p}) = 1
           /\ \A slot \in slots : SlotPath(highlightLayers, slot) \in BuildingPaths
           /\ Cardinality(slots) = Cardinality(BuildingPaths)

C25_Witness ==
    /\ lastOp = "createCoverageHighlightLayers"
    /\ PathsOf(Val(cityData).buildings) = <<"a.ts", "a.ts">>
    /\ HasCoverage("a.ts")
    /\ HasCoverage("gone.ts")
    /\ Len(highlightLayers) = 1
    /\ Len(highlightLayers[1].items) = 1

-----------------------------------------------------------------------------
(* After clearAgentLayers *)

\* The state after a mode selection or a git or quality update made when
\* mode layers were shown, the feed had layers and none of them was in the
\* layer set: the feed's layers had been cleared.  (A composition puts all
\* of the feed's layers into the layer set and a reset leaves no layer at
\* all, so only clearAgentLayers leads there; the selection or update itself
\* changes neither the layer set nor the feed.)
ClearedBeforeRecomputation ==
    /\ lastOp \in {"setColorMode", "updateGit", "updateQuality"}
    /\ highlightLayers # <<>>
    /\ FeedIds # {}
    /\ AnnotationPart(highlightLayers) = <<>>

(* C26: once the annotation layers have been cleared they stay out of the    *)
(* layer set while the agent feed is unchanged: the recomputation that       *)
(* follows a mode selection or a git or quality update does not bring them   *)
(* back.                                                                     *)
C26_ClearedStaysCleared ==
    [][(ClearedBeforeRecomputation /\ lastOp' = "composeEffect") =>
          AnnotationPart(highlightLayers') = <<>>]_vars

-----------------------------------------------------------------------------
(* Overlay of a selectable mode *)

\* the active mode is offered by the dropdown and the city has a building
SelectableWithBuildings ==
    /\ lastOp = "composeEffect"
    /\ colorMode \in Range(availableColorModes)
    /\ BuildingPaths # {}

HasLayerOfActiveMode ==
    \E layer \in Range(ModePart(highlightLayers)) : ModeOfLayerId(layer.id) = colorMode

(* C27 as stated: when the active mode is `git` or a quality mode, is        *)
(* available and the city has a building, the recomputed layer set holds a   *)
(* mode layer of the active mode.                                            *)
C27_SelectableModeHasLayers ==
    (SelectableWithBuildings /\ colorMode \in QualityModeIds \cup {"git"}) =>
        HasLayerOfActiveMode

(* C27: when the active mode is available and the city has a building, the   *)
(* recomputed layer set holds a mode layer of an active quality mode; for    *)
(* `git` it holds one iff a path listed in some category is a building, so   *)
(* a git status that lists only paths outside the city gives no git layer.   *)
C27_SelectableModeLayers ==
    SelectableWithBuildings =>
        /\ colorMode \in QualityModeIds => HasLayerOfActiveMode
        /\ colorMode = "git" =>
              (HasLayerOfActiveMode <=>
                 \E c \in GitCategories : Range(Val(git)[c]) \cap BuildingPaths # {})

C27_Witness ==
    /\ SelectableWithBuildings
    /\ colorMode = "git"
    /\ Val(git).deleted = <<"gone.ts">>
    /\ ModePart(highlightLayers) = <<>>

-----------------------------------------------------------------------------
(* File-type pairs *)

IsPrimaryOf(layer, ext) == layer.id = <<"ext", ext, "primary">>

IsSecondaryOf(layer, ext) == layer.id = <<"ext", ext, "secondary">>

\* `after` is `before` with the primary and the secondary layer of `ext` set
\* to the negation of the primary layer's flag (to TRUE without a primary)
PairSet(before, after, ext) ==
    LET primaries == {i \in 1..Len(before) : IsPrimaryOf(before[i], ext)}
        newEnabled == IF primaries = {} THEN TRUE
                      ELSE \A i \in primaries : ~before[i].enabled
    IN /\ Len(after) = Len(before)
       /\ \A i \in 1..Len(before) :
             IF IsPrimaryOf(before[i], ext) \/ IsSecondaryOf(before[i], ext)
             THEN /\ SameButEnabled(before[i], after[i])
                  /\ after[i].enabled = newEnabled
             ELSE after[i] = before[i]

PairsAgree(layers) ==
    \A i \in 1..Len(layers), j \in 1..Len(layers) :
        (/\ Len(layers[i].id) = 3
         /\ IsPrimaryOf(layers[i], layers[i].id[2])
         /\ IsSecondaryOf(layers[j], layers[i].id[2]))
            => layers[i].enabled = layers[j].enabled

(* C28: toggleFileType(ext) sets the primary and the secondary layer of the  *)
(* extension to the negation of the primary layer's enabled flag (to true    *)
(* when there is no primary layer) and changes no other layer; in every      *)
(* reachable state the primary and the secondary layer of an extension have  *)
(* the same enabled flag.                                                    *)
C28_FileTypePairs ==
    /\ [][lastOp' = "toggleFileType" =>
            \E ext \in legendFileTypes :
                PairSet(highlightLayers, highlightLayers', ext)]_vars
    /\ [](/\ PairsAgree(highlightLayers)
          /\ PairSet(highlightLayers, ToggleExt(highlightLayers, "none"), "none"))

C28_Witness ==
    /\ lastOp = "toggleFileType"
    /\ \E i \in 1..Len(highlightLayers), j \in 1..Len(highlightLayers),
          k \in 1..Len(highlightLayers) :
          /\ IsPrimaryOf(highlightLayers[i], "ts") /\ ~highlightLayers[i].enabled
          /\ IsSecondaryOf(highlightLayers[j], "ts") /\ ~highlightLayers[j].enabled
          /\ IsPrimaryOf(highlightLayers[k], "md") /\ highlightLayers[k].enabled

-----------------------------------------------------------------------------
(* The active color mode *)

(* C29: the color mode is `fileTypes` initially and changes only by a        *)
(* selection in the dropdown, to a mode that is available when it is         *)
(* selected, and by the reset after a change of repository, to `fileTypes`;  *)
(* no update, toggle, clear, composition or load changes it.                 *)
C29_ModeChangesOnlyBySelectionOrReset ==
    /\ [][colorMode' # colorMode =>
            \/ /\ lastOp' = "setColorMode"
               /\ colorMode' \in Range(availableColorModes)
            \/ /\ lastOp' = "resetEffect"
               /\ lastRepoPath # repoPath
               /\ colorMode' = "fileTypes"]_vars
    /\ [](lastOp = "mount" => colorMode = "fileTypes")

C29_Witness ==
    /\ lastOp = "setColorMode"
    /\ colorMode = "typescript"
    /\ availableColorModes = <<"fileTypes", "git", "typescript">>

-----------------------------------------------------------------------------
(* Loading the city *)

(* C30: every run of the load effect ends with loading = false; it leaves    *)
(* cityData as it is when the file tree slice has no data, and otherwise     *)
(* either sets it to the city built from the tree or, when building throws,  *)
(* leaves it as it is; the panel is never left in the loading state.         *)
C30_LoadNeverStuck ==
    /\ [][lastOp' = "loadEffect" =>
            /\ loading' = FALSE
            /\ fileTree = Null => cityData' = cityData
            /\ cityData' # cityData =>
                  (fileTree # Null /\ cityData' = Some(BuildCity(Val(fileTree))))]_vars
    /\ [](~loading)

\* the load effect has run with a tree whose build threw: the city is still
\* the one built from an earlier tree
C30_Witness ==
    /\ lastOp = "loadEffect"
    /\ ~loading
    /\ fileTree # Null
    /\ cityData # Null
    /\ cityData # Some(BuildCity(Val(fileTree)))

====
